---- MODULE Spec2Model ----
(***************************************************************************)
(* The TFTP packet codec of async-tftp (src/packet.rs): the encoder, the   *)
(* option sub-encoder, the protocol error taxonomy and its conversions,    *)
(* and the decoder the encoder's output is read back by.                   *)
(*                                                                         *)
(* Bytes are integers 0..255, byte strings and text are sequences of       *)
(* bytes (text is ASCII, one byte per character).  Option<T> is a record:  *)
(* None is [some |-> FALSE], Some(v) is [some |-> TRUE, val |-> v].        *)
(***************************************************************************)
EXTENDS Integers, Sequences, FiniteSets, TLC

VARIABLES
    pc,      \* where the caller stands: "idle", "encoded", "received", ...
    buf,     \* the byte buffer: BytesMut given to encode / bytes given to decode
    prev,    \* content of buf when the current call started
    buf0,    \* content of buf before the first encoder call
    calls,   \* the encoder calls and caller appends made on buf, in order
    msg,     \* the Packet value last given to encode
    head,    \* block id and payload of an encode_data_head + append in progress
    res,     \* result of the last Packet::decode
    ptype,   \* what PacketType::from_u16 returned inside the last decode
    arg,     \* argument of the last Error conversion
    err      \* result of the last Error conversion

vars == <<pc, buf, buf0, prev, calls, msg, head, res, ptype, arg, err>>

----------------------------------------------------------------------------
(* Bounds of the model *)

\* longest raw datagram handed to decode
MaxRawLen == 3
\* number of encoder calls made on one output buffer
MaxCalls == 2
\* error codes 0..MaxCode are enumerated, plus a few large ones
MaxCode == 12

----------------------------------------------------------------------------
(* Option<T> *)

None == [some |-> FALSE]
Some(v) == [some |-> TRUE, val |-> v]

(* Text literals of the source, as bytes *)

\* "netascii"
S_netascii == <<110, 101, 116, 97, 115, 99, 105, 105>>
\* "octet"
S_octet == <<111, 99, 116, 101, 116>>
\* "mail"
S_mail == <<109, 97, 105, 108>>
\* "blksize"
S_blksize == <<98, 108, 107, 115, 105, 122, 101>>
\* "timeout"
S_timeout == <<116, 105, 109, 101, 111, 117, 116>>
\* "windowsize"
S_windowsize == <<119, 105, 110, 100, 111, 119, 115, 105, 122, 101>>
\* "tsize"
S_tsize == <<116, 115, 105, 122, 101>>
\* "Unknown error"
S_UnknownError == <<85, 110, 107, 110, 111, 119, 110, 32, 101, 114, 114, 111, 114>>
\* "File not found"
S_FileNotFound == <<70, 105, 108, 101, 32, 110, 111, 116, 32, 102, 111, 117, 110, 100>>
\* "Permission denied"
S_PermissionDenied == <<80, 101, 114, 109, 105, 115, 115, 105, 111, 110, 32, 100, 101, 110, 105, 101, 100>>
\* "Disk is full"
S_DiskFull == <<68, 105, 115, 107, 32, 105, 115, 32, 102, 117, 108, 108>>
\* "Illegal operation"
S_IllegalOperation == <<73, 108, 108, 101, 103, 97, 108, 32, 111, 112, 101, 114, 97, 116, 105, 111, 110>>
\* "Unknown transfer ID"
S_UnknownTransferId == <<85, 110, 107, 110, 111, 119, 110, 32, 116, 114, 97, 110, 115, 102, 101, 114, 32, 73, 68>>
\* "File already exists"
S_FileAlreadyExists == <<70, 105, 108, 101, 32, 97, 108, 114, 101, 97, 100, 121, 32, 101, 120, 105, 115, 116, 115>>
\* "No such user"
S_NoSuchUser == <<78, 111, 32, 115, 117, 99, 104, 32, 117, 115, 101, 114>>
\* "Options negotiation failed"
S_OptionsNegotiationFailed == <<79, 112, 116, 105, 111, 110, 115, 32, 110, 101, 103, 111, 116, 105, 97, 116, 105, 111, 110, 32, 102, 97, 105, 108, 101, 100>>
\* "IO error: "
S_IOerror == <<73, 79, 32, 101, 114, 114, 111, 114, 58, 32>>
\* "Max retries reached"
S_MaxRetries == <<77, 97, 120, 32, 114, 101, 116, 114, 105, 101, 115, 32, 114, 101, 97, 99, 104, 101, 100>>
\* "custom"
S_custom == <<99, 117, 115, 116, 111, 109>>
\* "a.txt"
S_a_txt == <<97, 46, 116, 120, 116>>
\* "f"
S_f == <<102>>

NUL == 0

----------------------------------------------------------------------------
(* bytes::BufMut, as used by the encoder: every put appends *)

put_u8(b, n) == Append(b, n)
put_u16(b, n) == b \o <<(n \div 256) % 256, n % 256>>
put_slice(b, s) == b \o s

(* Display of an unsigned integer: decimal text, no sign, no leading zero *)
RECURSIVE to_string(_)
to_string(n) ==
    IF n < 10 THEN <<48 + n>>
    ELSE to_string(n \div 10) \o <<48 + (n % 10)>>

(* Display of an i32: a leading '-' for a negative value *)
i32_to_string(n) == IF n < 0 THEN <<45>> \o to_string(0 - n) ELSE to_string(n)

----------------------------------------------------------------------------
(* PacketType *)

PACKET_DATA_HEADER_LEN == 4

PacketType_into_u16(t) ==
    CASE t = "Rrq" -> 1
      [] t = "Wrq" -> 2
      [] t = "Data" -> 3
      [] t = "Ack" -> 4
      [] t = "Error" -> 5
      [] t = "OAck" -> 6

PacketType_from_u16_Some7(n) ==
    CASE n = 1 -> Some("Rrq")
      [] n = 2 -> Some("Wrq")
      [] n = 3 -> Some("Data")
      [] n = 4 -> Some("Ack")
      [] n = 5 -> Some("Error")
      [] n = 6 -> Some("OAck")
      [] n = 7 -> Some("OAck")
      [] OTHER -> None

PacketType_from_u16(n) ==
    CASE n = 1 -> Some("Rrq")
      [] n = 2 -> Some("Wrq")
      [] n = 3 -> Some("Data")
      [] n = 4 -> Some("Ack")
      [] n = 5 -> Some("Error")
      [] n = 6 -> Some("OAck")
      [] OTHER -> None

----------------------------------------------------------------------------
(* Packet values *)

Rrq(req) == [type |-> "Rrq", req |-> req]
Wrq(req) == [type |-> "Wrq", req |-> req]
Data(block, data) == [type |-> "Data", block |-> block, data |-> data]
Ack(block) == [type |-> "Ack", block |-> block]
Error(e) == [type |-> "Error", error |-> e]
OAck(opts) == [type |-> "OAck", opts |-> opts]

RwReq(filename, mode, opts) == [filename |-> filename, mode |-> mode, opts |-> opts]

Opts(bs, to, ts, ws) ==
    [block_size |-> bs, timeout |-> to, transfer_size |-> ts, window_size |-> ws]

Opts_default == Opts(None, None, None, None)

(* protocol Error values *)
Msg(text) == [kind |-> "Msg", msg |-> text]
Named(k) == [kind |-> k]
UnknownError == Named("UnknownError")

NamedKinds ==
    {"FileNotFound", "PermissionDenied", "DiskFull", "IllegalOperation",
     "UnknownTransferId", "FileAlreadyExists", "NoSuchUser",
     "OptionsNegotiationFailed"}

----------------------------------------------------------------------------
(* Mode::to_str *)

Mode_to_str_MailSlip(mode) ==
    CASE mode = "Netascii" -> S_netascii
      [] mode = "Octet" -> S_octet
      [] mode = "Mail" -> S_netascii

Mode_to_str(mode) ==
    CASE mode = "Netascii" -> S_netascii
      [] mode = "Octet" -> S_octet
      [] mode = "Mail" -> S_mail

----------------------------------------------------------------------------
(* Error::from_code, Error::code, Error::msg *)

Error_from_code_TextFirst(code, text) ==
    IF text.some THEN Msg(text.val)
    ELSE CASE code = 1 -> Named("FileNotFound")
           [] code = 2 -> Named("PermissionDenied")
           [] code = 3 -> Named("DiskFull")
           [] code = 4 -> Named("IllegalOperation")
           [] code = 5 -> Named("UnknownTransferId")
           [] code = 6 -> Named("FileAlreadyExists")
           [] code = 7 -> Named("NoSuchUser")
           [] code = 8 -> Named("OptionsNegotiationFailed")
           [] OTHER -> UnknownError

Error_from_code(code, text) ==
    CASE code = 1 -> Named("FileNotFound")
      [] code = 2 -> Named("PermissionDenied")
      [] code = 3 -> Named("DiskFull")
      [] code = 4 -> Named("IllegalOperation")
      [] code = 5 -> Named("UnknownTransferId")
      [] code = 6 -> Named("FileAlreadyExists")
      [] code = 7 -> Named("NoSuchUser")
      [] code = 8 -> Named("OptionsNegotiationFailed")
      [] OTHER -> IF text.some THEN Msg(text.val) ELSE UnknownError

Error_code_Slip(e) ==
    CASE e.kind = "Msg" -> 0
      [] e.kind = "UnknownError" -> 0
      [] e.kind = "FileNotFound" -> 1
      [] e.kind = "PermissionDenied" -> 2
      [] e.kind = "DiskFull" -> 2
      [] e.kind = "IllegalOperation" -> 4
      [] e.kind = "UnknownTransferId" -> 5
      [] e.kind = "FileAlreadyExists" -> 6
      [] e.kind = "NoSuchUser" -> 7
      [] e.kind = "OptionsNegotiationFailed" -> 8

Error_code(e) ==
    CASE e.kind = "Msg" -> 0
      [] e.kind = "UnknownError" -> 0
      [] e.kind = "FileNotFound" -> 1
      [] e.kind = "PermissionDenied" -> 2
      [] e.kind = "DiskFull" -> 3
      [] e.kind = "IllegalOperation" -> 4
      [] e.kind = "UnknownTransferId" -> 5
      [] e.kind = "FileAlreadyExists" -> 6
      [] e.kind = "NoSuchUser" -> 7
      [] e.kind = "OptionsNegotiationFailed" -> 8

Error_msg(e) ==
    CASE e.kind = "Msg" -> e.msg
      [] e.kind = "UnknownError" -> S_UnknownError
      [] e.kind = "FileNotFound" -> S_FileNotFound
      [] e.kind = "PermissionDenied" -> S_PermissionDenied
      [] e.kind = "DiskFull" -> S_DiskFull
      [] e.kind = "IllegalOperation" -> S_IllegalOperation
      [] e.kind = "UnknownTransferId" -> S_UnknownTransferId
      [] e.kind = "FileAlreadyExists" -> S_FileAlreadyExists
      [] e.kind = "NoSuchUser" -> S_NoSuchUser
      [] e.kind = "OptionsNegotiationFailed" -> S_OptionsNegotiationFailed

----------------------------------------------------------------------------
(* Opts::encode *)

Opts_encode_StructOrder(self, b) ==
    LET b1 == IF self.block_size.some
              THEN put_u8(put_slice(put_slice(b, S_blksize \o <<NUL>>),
                                    to_string(self.block_size.val)), 0)
              ELSE b
        b2 == IF self.timeout.some
              THEN put_u8(put_slice(put_slice(b1, S_timeout \o <<NUL>>),
                                    to_string(self.timeout.val)), 0)
              ELSE b1
        b3 == IF self.transfer_size.some
              THEN put_u8(put_slice(put_slice(b2, S_tsize \o <<NUL>>),
                                    to_string(self.transfer_size.val)), 0)
              ELSE b2
        b4 == IF self.window_size.some
              THEN put_u8(put_slice(put_slice(b3, S_windowsize \o <<NUL>>),
                                    to_string(self.window_size.val)), 0)
              ELSE b3
    IN  b4

Opts_encode(self, b) ==
    LET b1 == IF self.block_size.some
              THEN put_u8(put_slice(put_slice(b, S_blksize \o <<NUL>>),
                                    to_string(self.block_size.val)), 0)
              ELSE b
        b2 == IF self.timeout.some
              THEN put_u8(put_slice(put_slice(b1, S_timeout \o <<NUL>>),
                                    to_string(self.timeout.val)), 0)
              ELSE b1
        b3 == IF self.window_size.some
              THEN put_u8(put_slice(put_slice(b2, S_windowsize \o <<NUL>>),
                                    to_string(self.window_size.val)), 0)
              ELSE b2
        b4 == IF self.transfer_size.some
              THEN put_u8(put_slice(put_slice(b3, S_tsize \o <<NUL>>),
                                    to_string(self.transfer_size.val)), 0)
              ELSE b3
    IN  b4

----------------------------------------------------------------------------
(* Packet::encode, Packet::encode_data_head, Packet::to_bytes *)

Packet_encode_WrqAsRrq(self, b) ==
    CASE self.type = "Rrq" ->
           Opts_encode(self.req.opts,
               put_u8(put_slice(put_u8(put_slice(
                   put_u16(b, PacketType_into_u16("Rrq")),
                   self.req.filename), 0),
                   Mode_to_str(self.req.mode)), 0))
      [] self.type = "Wrq" ->
           Opts_encode(self.req.opts,
               put_u8(put_slice(put_u8(put_slice(
                   put_u16(b, PacketType_into_u16("Rrq")),
                   self.req.filename), 0),
                   Mode_to_str(self.req.mode)), 0))
      [] self.type = "Data" ->
           put_slice(put_u16(put_u16(b, PacketType_into_u16("Data")),
                             self.block), self.data)
      [] self.type = "Ack" ->
           put_u16(put_u16(b, PacketType_into_u16("Ack")), self.block)
      [] self.type = "Error" ->
           put_u8(put_slice(put_u16(put_u16(b, PacketType_into_u16("Error")),
                                    Error_code(self.error)),
                            Error_msg(self.error)), 0)
      [] self.type = "OAck" ->
           Opts_encode(self.opts, put_u16(b, PacketType_into_u16("OAck")))

Packet_encode(self, b) ==
    CASE self.type = "Rrq" ->
           Opts_encode(self.req.opts,
               put_u8(put_slice(put_u8(put_slice(
                   put_u16(b, PacketType_into_u16("Rrq")),
                   self.req.filename), 0),
                   Mode_to_str(self.req.mode)), 0))
      [] self.type = "Wrq" ->
           Opts_encode(self.req.opts,
               put_u8(put_slice(put_u8(put_slice(
                   put_u16(b, PacketType_into_u16("Wrq")),
                   self.req.filename), 0),
                   Mode_to_str(self.req.mode)), 0))
      [] self.type = "Data" ->
           put_slice(put_u16(put_u16(b, PacketType_into_u16("Data")),
                             self.block), self.data)
      [] self.type = "Ack" ->
           put_u16(put_u16(b, PacketType_into_u16("Ack")), self.block)
      [] self.type = "Error" ->
           put_u8(put_slice(put_u16(put_u16(b, PacketType_into_u16("Error")),
                                    Error_code(self.error)),
                            Error_msg(self.error)), 0)
      [] self.type = "OAck" ->
           Opts_encode(self.opts, put_u16(b, PacketType_into_u16("OAck")))

Packet_encode_data_head_AckOp(block_id, b) ==
    put_u16(put_u16(b, PacketType_into_u16("Ack")), block_id)

Packet_encode_data_head_Clear(block_id, b) ==
    put_u16(put_u16(<<>>, PacketType_into_u16("Data")), block_id)

Packet_encode_data_head(block_id, b) ==
    put_u16(put_u16(b, PacketType_into_u16("Data")), block_id)

Packet_to_bytes(self) == Packet_encode(self, <<>>)

----------------------------------------------------------------------------
(* impl From<io::Error> for Error.  An io::Error is its kind() and its     *)
(* raw_os_error()                                                           *)

IoError(kind, raw) == [kind |-> kind, raw_os_error |-> raw]

From_io_RawFirst(io_err) ==
    IF io_err.raw_os_error.some
    THEN Msg(S_IOerror \o i32_to_string(io_err.raw_os_error.val))
    ELSE CASE io_err.kind = "NotFound" -> Named("FileNotFound")
           [] io_err.kind = "PermissionDenied" -> Named("PermissionDenied")
           [] io_err.kind = "WriteZero" -> Named("DiskFull")
           [] io_err.kind = "AlreadyExists" -> Named("FileAlreadyExists")
           [] OTHER -> UnknownError

From_io(io_err) ==
    CASE io_err.kind = "NotFound" -> Named("FileNotFound")
      [] io_err.kind = "PermissionDenied" -> Named("PermissionDenied")
      [] io_err.kind = "WriteZero" -> Named("DiskFull")
      [] io_err.kind = "AlreadyExists" -> Named("FileAlreadyExists")
      [] OTHER -> IF io_err.raw_os_error.some
                  THEN Msg(S_IOerror \o i32_to_string(io_err.raw_os_error.val))
                  ELSE UnknownError

(* impl From<crate::Error> for Error.  A crate::Error is its variant and   *)
(* the value the variant wraps                                              *)

CrateError(kind, inner) == [kind |-> kind, inner |-> inner]

From_crate_NoInvalidPacketArm(e) ==
    CASE e.kind = "Packet" -> e.inner
      [] e.kind = "Io" -> From_io(e.inner)
      [] e.kind = "MaxSendRetriesReached" -> Msg(S_MaxRetries)
      [] OTHER -> UnknownError

From_crate(e) ==
    CASE e.kind = "Packet" -> e.inner
      [] e.kind = "Io" -> From_io(e.inner)
      [] e.kind = "InvalidPacket" -> Named("IllegalOperation")
      [] e.kind = "MaxSendRetriesReached" -> Msg(S_MaxRetries)
      [] OTHER -> UnknownError

----------------------------------------------------------------------------
(* crate::parse::parse_packet, the decoder behind Packet::decode.  Its     *)
(* failure conditions and leniencies are those of the decoder contract:    *)
(* InvalidPacket for a short buffer, an unknown opcode, a missing NUL      *)
(* terminator or a truncated option block; InvalidMode for an unknown mode *)
(* text; unknown option keys ignored; unparsable option values absent.     *)

Ok(p) == [ok |-> TRUE, packet |-> p]
Err(e) == [ok |-> FALSE, error |-> e]

be_u16(s, i) == s[i] * 256 + s[i + 1]

to_ascii_lowercase(s) ==
    [i \in 1..Len(s) |-> IF s[i] \in 65..90 THEN s[i] + 32 ELSE s[i]]

\* index of the first NUL of s at or after from; 0 when there is none
RECURSIVE find_nul(_, _)
find_nul(s, from) ==
    IF from > Len(s) THEN 0
    ELSE IF s[from] = NUL THEN from
    ELSE find_nul(s, from + 1)

\* the NUL-terminated text starting at from, and the index after its NUL
nul_str(s, from) ==
    LET p == find_nul(s, from)
    IN  IF p = 0 THEN None
        ELSE Some([text |-> SubSeq(s, from, p - 1), next |-> p + 1])

parse_mode(text) ==
    LET t == to_ascii_lowercase(text)
    IN  CASE t = S_netascii -> Some("Netascii")
          [] t = S_octet -> Some("Octet")
          [] t = S_mail -> Some("Mail")
          [] OTHER -> None

\* value of a digit text read left to right, saturating above max
RECURSIVE digits_value(_, _, _)
digits_value(text, acc, max) ==
    IF text = <<>> THEN acc
    ELSE IF acc > max THEN acc
    ELSE digits_value(Tail(text), 10 * acc + (Head(text) - 48), max)

\* FromStr of an unsigned integer type whose largest value is max:
\* empty text, a non-digit or a value above max is a parse failure
parse_uint(text, max) ==
    IF text = <<>> \/ \E i \in 1..Len(text) : text[i] \notin 48..57
    THEN None
    ELSE LET v == digits_value(text, 0, max)
         IN  IF v > max THEN None ELSE Some(v)

U8_MAX == 255
U16_MAX == 65535
\* transfer and window sizes are u64; every option value the model writes
\* or reads has at most 9 digits, so saturation is set above all of them
U64_MODEL_MAX == 999999999

set_opt(opts, key, val) ==
    CASE key = S_blksize ->
           LET v == parse_uint(val, U16_MAX)
           IN  IF v.some THEN [opts EXCEPT !.block_size = v] ELSE opts
      [] key = S_timeout ->
           LET v == parse_uint(val, U8_MAX)
           IN  IF v.some THEN [opts EXCEPT !.timeout = v] ELSE opts
      [] key = S_windowsize ->
           LET v == parse_uint(val, U64_MODEL_MAX)
           IN  IF v.some THEN [opts EXCEPT !.window_size = v] ELSE opts
      [] key = S_tsize ->
           LET v == parse_uint(val, U64_MODEL_MAX)
           IN  IF v.some THEN [opts EXCEPT !.transfer_size = v] ELSE opts
      [] OTHER -> opts

RECURSIVE parse_opts(_, _, _)
parse_opts(s, from, opts) ==
    IF from > Len(s) THEN Some(opts)
    ELSE LET k == nul_str(s, from)
         IN  IF ~k.some THEN None
             ELSE LET v == nul_str(s, k.val.next)
                  IN  IF ~v.some THEN None
                      ELSE parse_opts(s, v.val.next,
                                      set_opt(opts, k.val.text, v.val.text))

parse_req(type, s) ==
    LET f == nul_str(s, 3)
    IN  IF ~f.some THEN Err("InvalidPacket")
        ELSE LET m == nul_str(s, f.val.next)
             IN  IF ~m.some THEN Err("InvalidPacket")
                 ELSE LET mode == parse_mode(m.val.text)
                          o == parse_opts(s, m.val.next, Opts_default)
                      IN  IF ~mode.some THEN Err("InvalidMode")
                          ELSE IF ~o.some THEN Err("InvalidPacket")
                          ELSE Ok([type |-> type,
                                   req |-> RwReq(f.val.text, mode.val, o.val)])

parse_error(s) ==
    IF Len(s) < 4 THEN Err("InvalidPacket")
    ELSE LET m == nul_str(s, 5)
         IN  IF ~m.some THEN Err("InvalidPacket")
             ELSE Ok(Error(Error_from_code(be_u16(s, 3), Some(m.val.text))))

parse_packet(data) ==
    IF Len(data) < 2 THEN Err("InvalidPacket")
    ELSE LET t == PacketType_from_u16(be_u16(data, 1))
         IN  IF ~t.some THEN Err("InvalidPacket")
             ELSE CASE t.val \in {"Rrq", "Wrq"} -> parse_req(t.val, data)
                    [] t.val = "Data" ->
                         IF Len(data) < PACKET_DATA_HEADER_LEN
                         THEN Err("InvalidPacket")
                         ELSE Ok(Data(be_u16(data, 3),
                                      SubSeq(data, 5, Len(data))))
                    [] t.val = "Ack" ->
                         IF Len(data) < PACKET_DATA_HEADER_LEN
                         THEN Err("InvalidPacket")
                         ELSE Ok(Ack(be_u16(data, 3)))
                    [] t.val = "Error" -> parse_error(data)
                    [] t.val = "OAck" ->
                         LET o == parse_opts(data, 3, Opts_default)
                         IN  IF ~o.some THEN Err("InvalidPacket")
                             ELSE Ok(OAck(o.val))

(* Packet::decode *)
Packet_decode(data) == parse_packet(data)

\* the PacketType a decode of data reads, None when it reads none
decode_packet_type(data) ==
    IF Len(data) < 2 THEN None ELSE PacketType_from_u16(be_u16(data, 1))

----------------------------------------------------------------------------
(* The values the operations are applied to *)

Modes == {"Netascii", "Octet", "Mail"}

Filenames == {S_f, S_a_txt}

BlockSizes == {None, Some(8), Some(1024), Some(65464)}
Timeouts == {None, Some(1), Some(255)}
TransferSizes == {None, Some(0), Some(100000)}
WindowSizes == {None, Some(1), Some(16)}

AllOpts ==
    {Opts(bs, to, ts, ws) : bs \in BlockSizes, to \in Timeouts,
                            ts \in TransferSizes, ws \in WindowSizes}

Blocks == {0, 5, 65535}
Payloads == {<<>>, <<170, 187>>, <<0, 255>>}

MsgTexts == {<<>>, S_custom, S_FileNotFound, S_UnknownError}

Errors == {Named(k) : k \in NamedKinds} \cup {UnknownError}
              \cup {Msg(t) : t \in MsgTexts}

Requests == {RwReq(f, m, o) : f \in Filenames, m \in Modes, o \in AllOpts}

Messages ==
    {Rrq(r) : r \in Requests} \cup {Wrq(r) : r \in Requests}
        \cup {Data(b, p) : b \in Blocks, p \in Payloads}
        \cup {Ack(b) : b \in Blocks}
        \cup {Error(e) : e \in Errors}
        \cup {OAck(o) : o \in AllOpts}

\* one or two messages of each variant, for sequences of calls on one buffer
FewMessages ==
    {Rrq(RwReq(S_a_txt, "Octet", Opts(Some(1024), None, None, None))),
     Wrq(RwReq(S_f, "Netascii", Opts_default)),
     Data(5, <<170, 187>>), Data(0, <<>>), Ack(65535),
     Error(Named("FileNotFound")), Error(Msg(S_custom)),
     OAck(Opts(None, Some(1), Some(0), Some(16)))}

InitBufs == {<<>>, <<0, 4, 0, 1>>, <<255>>}

\* bytes raw datagrams are made of
RawBytes == {0, 1, 2, 3, 4, 5, 6, 7, 255}

RECURSIVE SeqsUpTo(_, _)
SeqsUpTo(S, n) ==
    IF n = 0 THEN {<<>>}
    ELSE LET shorter == SeqsUpTo(S, n - 1)
         IN  shorter \cup {Append(s, x) : s \in shorter, x \in S}

RawDatagrams == SeqsUpTo(RawBytes, MaxRawLen)

Codes == (0..MaxCode) \cup {255, 256, 65535}
Texts == {None} \cup {Some(t) : t \in MsgTexts}

IoKinds ==
    {"NotFound", "PermissionDenied", "WriteZero", "AlreadyExists",
     "ConnectionRefused", "TimedOut", "UnexpectedEof", "Other"}
RawOsErrors == {None, Some(2), Some(13), Some(28), Some(110), Some(-1)}
IoErrors == {IoError(k, r) : k \in IoKinds, r \in RawOsErrors}

CrateErrors ==
    {CrateError("Packet", e) : e \in Errors}
        \cup {CrateError("Io", e) : e \in IoErrors}
        \cup {CrateError(k, None) :
                 k \in {"InvalidPacket", "InvalidMode", "MaxSendRetriesReached"}}

NoMsg == [type |-> "none"]
NoHead == [block |-> 0, data |-> <<>>, active |-> FALSE]
NoRes == [ok |-> FALSE, error |-> "none"]
NoArg == [op |-> "none"]
NoErr == [kind |-> "none"]

----------------------------------------------------------------------------
(* Operations *)

InitCommon ==
    /\ pc = "idle"
    /\ prev = buf
    /\ buf0 = buf
    /\ calls = <<>>
    /\ msg = NoMsg
    /\ head = NoHead
    /\ res = NoRes
    /\ ptype = None
    /\ arg = NoArg
    /\ err = NoErr

\* self.encode(&mut buf)
Encode(m) ==
    /\ pc \in {"idle", "encoded", "appended"}
    /\ prev' = buf
    /\ buf' = Packet_encode(m, buf)
    /\ msg' = m
    /\ calls' = Append(calls, [op |-> "encode", msg |-> m])
    /\ pc' = "encoded"
    /\ UNCHANGED <<buf0, head, res, ptype, arg, err>>

\* Packet::encode_data_head(block_id, &mut buf)
EncodeDataHead(block_id) ==
    /\ pc \in {"idle", "encoded", "appended"}
    /\ prev' = buf
    /\ buf' = Packet_encode_data_head(block_id, buf)
    /\ head' = [block |-> block_id, data |-> <<>>, active |-> TRUE]
    /\ calls' = Append(calls, [op |-> "encode_data_head", block |-> block_id])
    /\ pc' = "head"
    /\ UNCHANGED <<buf0, msg, res, ptype, arg, err>>

\* the caller appends the payload after the head: buf.put_slice(data)
AppendPayload(data) ==
    /\ pc = "head"
    /\ buf' = put_slice(buf, data)
    /\ head' = [head EXCEPT !.data = data]
    /\ calls' = Append(calls, [op |-> "put_slice", data |-> data])
    /\ pc' = "appended"
    /\ UNCHANGED <<buf0, prev, msg, res, ptype, arg, err>>

\* a datagram arrives from the network
Receive(d) ==
    /\ pc = "idle"
    /\ buf' = d
    /\ pc' = "received"
    /\ UNCHANGED <<buf0, prev, calls, msg, head, res, ptype, arg, err>>

\* Packet::decode(&buf)
Decode ==
    /\ pc \in {"encoded", "received"}
    /\ res' = Packet_decode(buf)
    /\ ptype' = decode_packet_type(buf)
    /\ pc' = "decoded"
    /\ UNCHANGED <<buf, buf0, prev, calls, msg, head, arg, err>>

\* Error::from_code(code, msg)
FromCode(code, text) ==
    /\ pc = "idle"
    /\ arg' = [op |-> "from_code", code |-> code, text |-> text]
    /\ err' = Error_from_code(code, text)
    /\ pc' = "converted"
    /\ UNCHANGED <<buf, buf0, prev, calls, msg, head, res, ptype>>

\* Error::from_code(d.code(), Some(d.msg()))
Recode(d) ==
    /\ pc = "idle"
    /\ arg' = [op |-> "recode", d |-> d]
    /\ err' = Error_from_code(Error_code(d), Some(Error_msg(d)))
    /\ pc' = "converted"
    /\ UNCHANGED <<buf, buf0, prev, calls, msg, head, res, ptype>>

\* Error::from(io_err)
FromIo(io_err) ==
    /\ pc = "idle"
    /\ arg' = [op |-> "from_io", e |-> io_err]
    /\ err' = From_io(io_err)
    /\ pc' = "converted"
    /\ UNCHANGED <<buf, buf0, prev, calls, msg, head, res, ptype>>

\* Error::from(err) for a crate::Error
FromCrate(e) ==
    /\ pc = "idle"
    /\ arg' = [op |-> "from_crate", e |-> e]
    /\ err' = From_crate(e)
    /\ pc' = "converted"
    /\ UNCHANGED <<buf, buf0, prev, calls, msg, head, res, ptype>>

----------------------------------------------------------------------------
(* Spec: one message is encoded into an empty buffer and decoded back, or  *)
(* a raw datagram is decoded                                               *)

Init == buf = <<>> /\ InitCommon

EncodeOne == \E m \in Messages : calls = <<>> /\ Encode(m)
ReceiveRaw == \E d \in RawDatagrams : Receive(d)

Next == EncodeOne \/ ReceiveRaw \/ Decode

Spec == Init /\ [][Next]_vars

(* SpecBuf: up to MaxCalls encoder calls on one buffer with initial content *)

InitBuf == buf \in InitBufs /\ InitCommon

\* the encoder calls among calls (the caller's own appends left out)
EncoderCalls == SelectSeq(calls, LAMBDA c : c.op # "put_slice")

EncodeNext ==
    \E m \in FewMessages : Len(EncoderCalls) < MaxCalls /\ Encode(m)
EncodeDataHeadNext ==
    \E b \in Blocks : Len(EncoderCalls) < MaxCalls /\ EncodeDataHead(b)
AppendPayloadNext == \E p \in Payloads : AppendPayload(p)

NextBuf == EncodeNext \/ EncodeDataHeadNext \/ AppendPayloadNext

SpecBuf == InitBuf /\ [][NextBuf]_vars

(* SpecErr: one conversion into a protocol Error *)

FromCodeNext == \E c \in Codes, t \in Texts : FromCode(c, t)
RecodeNext == \E d \in Errors : Recode(d)
FromIoNext == \E e \in IoErrors : FromIo(e)
FromCrateNext == \E e \in CrateErrors : FromCrate(e)

NextErr == FromCodeNext \/ RecodeNext \/ FromIoNext \/ FromCrateNext

SpecErr == Init /\ [][NextErr]_vars

----------------------------------------------------------------------------
(* Properties *)

\* big-endian bytes of a 16-bit value
BE16(n) == <<n \div 256, n % 256>>

\* text is the decimal notation of n: digits only, no leading zero, value n
IsDecimalOf(text, n) ==
    /\ text # <<>>
    /\ \A i \in 1..Len(text) : text[i] \in 48..57
    /\ Len(text) > 1 => text[1] # 48
    /\ digits_value(text, 0, U64_MODEL_MAX) = n

\* the NUL-terminated fields of a byte string; a last field with no
\* terminator shows as <<-1>>, which no text equals
RECURSIVE Fields(_, _)
Fields(s, from) ==
    IF from > Len(s) THEN <<>>
    ELSE LET f == nul_str(s, from)
         IN  IF ~f.some THEN <<<<-1>>>>
             ELSE <<f.val.text>> \o Fields(s, f.val.next)

\* C1 as stated: for every valid message m, decoding the bytes of
\* Packet::encode(m) succeeds and returns a message equal to m.
C1_RoundTripEveryMessage ==
    (pc = "decoded" /\ msg # NoMsg) => res = Ok(msg)

\* C1, amended: for every valid message m other than Error(UnknownError),
\* decoding the bytes of Packet::encode(m) succeeds and returns a message
\* equal to m; Error(UnknownError) decodes as Error(Msg("Unknown error")).
C1_RoundTrip ==
    (pc = "decoded" /\ msg # NoMsg) =>
        IF msg = Error(UnknownError)
        THEN res = Ok(Error(Msg(S_UnknownError)))
        ELSE res = Ok(msg)

C1_Witness ==
    /\ pc = "decoded"
    /\ msg.type = "Wrq"
    /\ msg.req.opts.block_size.some /\ msg.req.opts.timeout.some
    /\ msg.req.opts.transfer_size.some /\ msg.req.opts.window_size.some
    /\ res = Ok(msg)

\* C2: Error::from_code returns the fixed variant for the codes 1..8 with
\* or without text, and for code 0 and every code above 8 returns Msg(text)
\* when text is given and UnknownError when it is not.
C2_FromCode ==
    (pc = "converted" /\ arg.op = "from_code") =>
        IF arg.code \in 1..8
        THEN err = Named(<<"FileNotFound", "PermissionDenied", "DiskFull",
                           "IllegalOperation", "UnknownTransferId",
                           "FileAlreadyExists", "NoSuchUser",
                           "OptionsNegotiationFailed">>[arg.code])
        ELSE IF arg.text.some THEN err = Msg(arg.text.val)
        ELSE err = UnknownError

C2_Witness ==
    /\ pc = "converted" /\ arg.op = "from_code"
    /\ arg.code = 9 /\ arg.text = Some(S_custom) /\ err = Msg(S_custom)

\* C3: from_code(d.code(), Some(d.msg())) = d for each of the eight named
\* variants d; from_code followed by code() gives back each code 1..8; and
\* code 0 only ever yields Msg or UnknownError.
C3_CodeInverse ==
    /\ (pc = "converted" /\ arg.op = "recode") =>
           IF arg.d.kind \in NamedKinds THEN err = arg.d
           ELSE err.kind \in {"Msg", "UnknownError"}
    /\ (pc = "converted" /\ arg.op = "from_code") =>
           IF arg.code \in 1..8 THEN Error_code(err) = arg.code
           ELSE err.kind \in {"Msg", "UnknownError"}

C3_Witness ==
    /\ pc = "converted" /\ arg.op = "recode"
    /\ arg.d = Named("OptionsNegotiationFailed") /\ err = arg.d

\* C4: Packet::encode writes the wire layout of the message's variant, all
\* 16-bit fields big-endian: 0001 / 0002, filename, NUL, lowercase mode
\* text, NUL, options block; 0003, block, payload; 0004, block (4 bytes);
\* 0005, code, message text, NUL (Msg(text) as code 0 with its text);
\* 0006, options block.
C4_WireLayout ==
    pc = "encoded" =>
        LET modeText == CASE msg.req.mode = "Netascii" -> S_netascii
                          [] msg.req.mode = "Octet" -> S_octet
                          [] msg.req.mode = "Mail" -> S_mail
        IN
        CASE msg.type = "Rrq" ->
               buf = <<0, 1>> \o msg.req.filename \o <<0>> \o modeText
                         \o <<0>> \o Opts_encode(msg.req.opts, <<>>)
          [] msg.type = "Wrq" ->
               buf = <<0, 2>> \o msg.req.filename \o <<0>> \o modeText
                         \o <<0>> \o Opts_encode(msg.req.opts, <<>>)
          [] msg.type = "Data" ->
               buf = <<0, 3>> \o BE16(msg.block) \o msg.data
          [] msg.type = "Ack" ->
               buf = <<0, 4>> \o BE16(msg.block) /\ Len(buf) = 4
          [] msg.type = "Error" ->
               /\ buf = <<0, 5>> \o BE16(Error_code(msg.error))
                            \o Error_msg(msg.error) \o <<0>>
               /\ msg.error.kind = "Msg" =>
                      buf = <<0, 5, 0, 0>> \o msg.error.msg \o <<0>>
               /\ msg.error = Named("FileNotFound") =>
                      buf = <<0, 5, 0, 1>> \o S_FileNotFound \o <<0>>
          [] msg.type = "OAck" ->
               buf = <<0, 6>> \o Opts_encode(msg.opts, <<>>)

C4_Witness ==
    /\ pc = "encoded"
    /\ msg = Wrq(RwReq(S_a_txt, "Octet", Opts(Some(1024), None, None, None)))
    /\ buf = <<0, 2>> \o S_a_txt \o <<0>> \o S_octet \o <<0>>
                 \o S_blksize \o <<0, 49, 48, 50, 52, 0>>

\* the options of a record that are present, in the order blksize, timeout,
\* windowsize, tsize
C5_Present(o) ==
    SelectSeq(<<[key |-> S_blksize, v |-> o.block_size],
                [key |-> S_timeout, v |-> o.timeout],
                [key |-> S_windowsize, v |-> o.window_size],
                [key |-> S_tsize, v |-> o.transfer_size]>>,
              LAMBDA e : e.v.some)

\* block is exactly one "key NUL decimal NUL" entry per present option of o
C5_IsBlockOf(block, o) ==
    LET f == Fields(block, 1)
        want == C5_Present(o)
    IN  /\ Len(f) = 2 * Len(want)
        /\ \A i \in 1..Len(want) :
               /\ f[2 * i - 1] = want[i].key
               /\ IsDecimalOf(f[2 * i], want[i].v.val)
        /\ (Len(want) = 0) => block = <<>>

\* C5: the encoded options block holds one "key NUL decimal-text NUL" entry
\* for each present option and nothing for an absent one, in the order
\* blksize, timeout, windowsize, tsize; no option present gives zero bytes.
C5_OptionsBlock ==
    pc = "encoded" =>
        CASE msg.type = "OAck" ->
               C5_IsBlockOf(SubSeq(buf, 3, Len(buf)), msg.opts)
          [] msg.type \in {"Rrq", "Wrq"} ->
               C5_IsBlockOf(
                   SubSeq(buf, 5 + Len(msg.req.filename)
                                 + Len(Mode_to_str(msg.req.mode)), Len(buf)),
                   msg.req.opts)
          [] OTHER -> TRUE

C5_Witness ==
    /\ pc = "encoded" /\ msg.type = "OAck"
    /\ ~msg.opts.block_size.some /\ msg.opts.timeout.some
    /\ msg.opts.window_size.some /\ msg.opts.transfer_size.some
    /\ Len(Fields(SubSeq(buf, 3, Len(buf)), 1)) = 6

\* C6: encode_data_head(b, buf) followed by appending p leaves buf with the
\* bytes Packet::Data(b, p).encode(buf) gives on the same initial buffer;
\* encode_data_head appends exactly PACKET_DATA_HEADER_LEN bytes.
C6_DataHead ==
    /\ pc = "head" =>
           /\ Len(buf) = Len(prev) + PACKET_DATA_HEADER_LEN
           /\ SubSeq(buf, 1, Len(prev)) = prev
    /\ pc = "appended" =>
           buf = Packet_encode(Data(head.block, head.data), prev)

C6_Witness ==
    /\ pc = "appended" /\ prev = <<>>
    /\ head.block = 5 /\ head.data = <<170, 187>>
    /\ buf = <<0, 3, 0, 5, 170, 187>>

\* what one call appends: to_bytes of the message for encode, the 4-byte
\* head (a Data packet with no payload) for encode_data_head
C7_Output(c) ==
    CASE c.op = "encode" -> Packet_to_bytes(c.msg)
      [] c.op = "encode_data_head" -> Packet_to_bytes(Data(c.block, <<>>))
      [] c.op = "put_slice" -> c.data

RECURSIVE C7_Concat(_)
C7_Concat(cs) ==
    IF cs = <<>> THEN <<>> ELSE C7_Output(Head(cs)) \o C7_Concat(Tail(cs))

\* C7: after any sequence of encode and encode_data_head calls on one
\* buffer, the buffer is its initial content followed by what each call
\* produces on an empty buffer, in call order; the bytes present before a
\* call are still its prefix after it.
C7_AppendOnly ==
    /\ buf = buf0 \o C7_Concat(calls)
    /\ pc \in {"encoded", "head"} =>
           /\ Len(buf) >= Len(prev)
           /\ SubSeq(buf, 1, Len(prev)) = prev

C7_Witness ==
    /\ buf0 # <<>> /\ Len(calls) >= 2
    /\ calls[1].op = "encode" /\ calls[2].op = "encode_data_head"
    /\ Len(buf) > Len(buf0) + PACKET_DATA_HEADER_LEN

\* C8: the conversion from an I/O failure maps NotFound to FileNotFound,
\* PermissionDenied to PermissionDenied, WriteZero to DiskFull,
\* AlreadyExists to FileAlreadyExists, whatever the OS code; every other
\* kind maps to Msg("IO error: <code>") with an OS code and to UnknownError
\* without one.
C8_FromIo ==
    (pc = "converted" /\ arg.op = "from_io") =>
        LET raw == arg.e.raw_os_error
        IN
        CASE arg.e.kind = "NotFound" -> err = Named("FileNotFound")
          [] arg.e.kind = "PermissionDenied" -> err = Named("PermissionDenied")
          [] arg.e.kind = "WriteZero" -> err = Named("DiskFull")
          [] arg.e.kind = "AlreadyExists" -> err = Named("FileAlreadyExists")
          [] OTHER ->
               IF ~raw.some THEN err = UnknownError
               ELSE /\ err.kind = "Msg"
                    /\ Len(err.msg) > Len(S_IOerror)
                    /\ SubSeq(err.msg, 1, Len(S_IOerror)) = S_IOerror
                    /\ LET num == SubSeq(err.msg, Len(S_IOerror) + 1,
                                         Len(err.msg))
                       IN  IF raw.val < 0
                           THEN /\ Head(num) = 45
                                /\ IsDecimalOf(Tail(num), 0 - raw.val)
                           ELSE IsDecimalOf(num, raw.val)

C8_Witness ==
    /\ pc = "converted" /\ arg.op = "from_io"
    /\ arg.e = IoError("NotFound", Some(2)) /\ err = Named("FileNotFound")

\* C9: the conversion from a session error always yields a protocol error:
\* a wrapped protocol error unchanged, a wrapped I/O error through the I/O
\* conversion, InvalidPacket as IllegalOperation, retry exhaustion as
\* Msg("Max retries reached"), anything else as UnknownError; the result
\* has a wire code in 0..8.
C9_FromCrate ==
    (pc = "converted" /\ arg.op = "from_crate") =>
        /\ CASE arg.e.kind = "Packet" -> err = arg.e.inner
             [] arg.e.kind = "Io" -> err = From_io(arg.e.inner)
             [] arg.e.kind = "InvalidPacket" -> err = Named("IllegalOperation")
             [] arg.e.kind = "MaxSendRetriesReached" -> err = Msg(S_MaxRetries)
             [] OTHER -> err = UnknownError
        /\ err.kind \in NamedKinds \cup {"Msg", "UnknownError"}
        /\ Error_code(err) \in 0..8

C9_Witness ==
    /\ pc = "converted" /\ arg.op = "from_crate"
    /\ arg.e.kind = "InvalidPacket" /\ err = Named("IllegalOperation")

\* C10: decoding fewer than 2 bytes, or bytes whose first two read as a
\* big-endian opcode outside 1..6, fails with InvalidPacket;
\* PacketType::from_u16 gives None exactly for the values outside 1..6 and
\* the matching type for 1..6.
C10_BadOpcode ==
    pc = "decoded" =>
        IF Len(buf) < 2 THEN res = Err("InvalidPacket")
        ELSE LET op == buf[1] * 256 + buf[2]
             IN  IF op \in 1..6
                 THEN ptype = Some(<<"Rrq", "Wrq", "Data", "Ack", "Error",
                                     "OAck">>[op])
                 ELSE ptype = None /\ res = Err("InvalidPacket")

C10_Witness ==
    /\ pc = "decoded" /\ Len(buf) >= 2
    /\ buf[1] = 0 /\ buf[2] = 7
    /\ res = Err("InvalidPacket")

====
